---- MODULE Spec2Model ----
(***************************************************************************)
(* Model of gateway/gateway.py: the allow-list of pinned action references *)
(* (actions.yml), the reference updater, the expiry pruner, the pattern    *)
(* generator and the dummy-workflow synthesizer.                           *)
(*                                                                         *)
(* Dates are day numbers; day 0 is the first day of the model.  A Python   *)
(* str is a sequence of tokens, "@" being a token of its own, so that      *)
(* f"{name}@{ref}" and str.split("@") are computed and not assumed to be   *)
(* inverse.  A Python dict is a sequence of [key, val] entries in          *)
(* insertion order.                                                        *)
(***************************************************************************)
EXTENDS Integers, Sequences, FiniteSets, TLC

VARIABLES
    today,          \* date.today(), as a day number
    actions_file,   \* actions.yml: [exists, content], content an ActionsYAML
    dummy_file,     \* the dummy workflow: [exists, content], content its lines
    op,             \* the driver operation that ran last
    error,          \* how that operation ended: "none" or the exception raised
    superseded,     \* history: (name, ref) -> day a new sibling was last recorded, or NoDay
    edits           \* history: how many times the dummy workflow was edited

vars == <<today, actions_file, dummy_file, op, error, superseded, edits>>

----------------------------------------------------------------------------
(* Bounds of the model *)

\* the last day the clock reaches
MaxDay == 84
\* the longest list of steps a hand edit of the dummy workflow holds
MaxSteps == 2
\* the number of edits of the dummy workflow in one behaviour
MaxEdits == 1

\* the days on which the driver is run
Days == {d \in 0..MaxDay : d <= 1 \/ d = 56 \/ d >= 83}

Names == {<<"o/r">>, <<"a/b">>}
Refs == {<<"abc">>, <<"xyz">>}

\* expires_at values of the entries the store starts with
InitExpiries == {1, 29}

NoDay == 0 - 1

----------------------------------------------------------------------------
(* Python dict, insertion ordered *)

Keys(d) == [i \in 1..Len(d) |-> d[i].key]

Has(d, k) == \E i \in 1..Len(d) : d[i].key = k

Get(d, k) == d[CHOOSE i \in 1..Len(d) : d[i].key = k].val

SetItem(d, k, v) ==
    IF Has(d, k)
    THEN [i \in 1..Len(d) |-> IF d[i].key = k THEN [key |-> k, val |-> v] ELSE d[i]]
    ELSE Append(d, [key |-> k, val |-> v])

DelItem(d, k) == SelectSeq(d, LAMBDA e : e.key # k)

\* details.get("keep"), as a truth value
Keep(details) == "keep" \in DOMAIN details /\ details.keep

\* for name, refs in actions.items() for ref, details in refs.items()
RECURSIVE Items(_)
Items(actions) ==
    IF actions = <<>> THEN <<>>
    ELSE LET head == actions[1]
         IN  [i \in 1..Len(head.val) |->
                 [name |-> head.key, ref |-> head.val[i].key, details |-> head.val[i].val]]
             \o Items(Tail(actions))

----------------------------------------------------------------------------
(* Date policy *)

\* date(2100, 1, 1), day 0 being 2024-06-01
FarFuture == 27607

\* mutant: the offset taken in days
calculate_expiry_InDays(weeks) == today + weeks

calculate_expiry(weeks) == today + 7 * weeks

----------------------------------------------------------------------------
(* Strings *)

\* s.split(sep)
RECURSIVE Split(_, _)
Split(s, sep) ==
    IF \E i \in 1..Len(s) : s[i] = sep
    THEN LET i == CHOOSE j \in 1..Len(s) : s[j] = sep /\ \A k \in 1..(j - 1) : s[k] # sep
         IN  <<SubSeq(s, 1, i - 1)>> \o Split(SubSeq(s, i + 1, Len(s)), sep)
    ELSE <<s>>

\* f"{name}@{ref}"
NameAtRef(name, ref) == name \o <<"@">> \o ref

----------------------------------------------------------------------------
(* Workflow synthesizer *)

header == << <<"name: Dummy Workflow">>, <<>>, <<"on:">>, <<"  workflow_dispatch:">>, <<>>,
             <<"jobs:">>, <<"  dummy:">>, <<"    if: false">>,
             <<"    runs-on: ubuntu-latest">>, <<"    steps:">> >>

StepPrefix == "      - uses: "

StepLine(uses) == <<StepPrefix>> \o uses

\* mutant: an entry expiring exactly at the horizon is listed
InWorkflow_Inclusive(details) == details.expires_at >= calculate_expiry(4) /\ ~Keep(details)

\* the condition of the generator expression, lines 140-141
InWorkflow(details) == details.expires_at > calculate_expiry(4) /\ ~Keep(details)

generate_workflow(actions) ==
    LET steps == SelectSeq(Items(actions), LAMBDA it : InWorkflow(it.details))
    IN  header \o [i \in 1..Len(steps) |-> StepLine(NameAtRef(steps[i].name, steps[i].ref))]

----------------------------------------------------------------------------
(* Files *)

Missing == [exists |-> FALSE, content |-> <<>>]

File(content) == [exists |-> TRUE, content |-> content]

\* load_yaml: the parsed content, or the error open() or yaml.safe_load raises
load_yaml(file) ==
    IF file.exists THEN [error |-> "none", data |-> file.content]
    ELSE [error |-> "LoadError", data |-> <<>>]

\* dummy["jobs"]["dummy"]["steps"] of the parsed workflow: the list of the
\* step mappings under "steps:", or None when the key has no value
DummySteps(lines) ==
    LET items == SelectSeq(lines, LAMBDA l : l # <<>> /\ l[1] = StepPrefix)
    IN  IF items = <<>>
        THEN [none |-> TRUE, list |-> <<>>]
        ELSE [none |-> FALSE, list |-> [i \in 1..Len(items) |-> [uses |-> Tail(items[i])]]]

----------------------------------------------------------------------------
(* Reference updater *)

\* the new entry of line 174
NewDetails == [expires_at |-> FarFuture, keep |-> FALSE]

\* mutant: an expiry is only ever shortened
ExpireOld_OnlyEarlier(refs) ==
    [i \in 1..Len(refs) |->
        [key |-> refs[i].key,
         val |-> IF refs[i].val.expires_at > calculate_expiry(12)
                 THEN refs[i].val
                 ELSE [refs[i].val EXCEPT !.expires_at = calculate_expiry(12)]]]

\* lines 168-172: every entry of refs gets the 12 week expiry
ExpireOld(refs) ==
    [i \in 1..Len(refs) |->
        [key |-> refs[i].key, val |-> [refs[i].val EXCEPT !.expires_at = calculate_expiry(12)]]]

\* mutant: a new reference expires the entries of every name
AddRef_BumpsAllNames(action_refs, name, new_ref) ==
    LET known == IF Has(action_refs, name) THEN action_refs
                 ELSE SetItem(action_refs, name, <<>>)
        refs == Get(known, name)
        all == [i \in 1..Len(known) |-> [key |-> known[i].key, val |-> ExpireOld(known[i].val)]]
    IN  IF Has(refs, new_ref) THEN known
        ELSE SetItem(all, name, SetItem(ExpireOld(refs), new_ref, NewDetails))

\* mutant: a reference already present expires its siblings again
AddRef_AlwaysBumps(action_refs, name, new_ref) ==
    LET known == IF Has(action_refs, name) THEN action_refs
                 ELSE SetItem(action_refs, name, <<>>)
        refs == Get(known, name)
        others == [i \in 1..Len(refs) |->
                      IF refs[i].key = new_ref THEN refs[i] ELSE ExpireOld(<<refs[i]>>)[1]]
    IN  IF Has(refs, new_ref) THEN SetItem(known, name, others)
        ELSE SetItem(known, name, SetItem(ExpireOld(refs), new_ref, NewDetails))

\* lines 163-174, once the step is split into name and new_ref
AddRef(action_refs, name, new_ref) ==
    LET known == IF Has(action_refs, name) THEN action_refs
                 ELSE SetItem(action_refs, name, <<>>)
        refs == Get(known, name)
    IN  IF Has(refs, new_ref) THEN known
        ELSE SetItem(known, name, SetItem(ExpireOld(refs), new_ref, NewDetails))

\* mutant: a step without the separator is skipped
UpdateStep_SkipsMalformed(action_refs, step) ==
    LET parts == Split(step.uses, "@")
    IN  IF Len(parts) # 2
        THEN [error |-> "none", actions |-> action_refs]
        ELSE [error |-> "none", actions |-> AddRef(action_refs, parts[1], parts[2])]

\* one iteration of the loop of update_refs, lines 161-174
UpdateStep(action_refs, step) ==
    LET parts == Split(step.uses, "@")
    IN  IF Len(parts) # 2
        THEN [error |-> "ValueError", actions |-> action_refs]
        ELSE [error |-> "none", actions |-> AddRef(action_refs, parts[1], parts[2])]

RECURSIVE UpdateLoop(_, _)
UpdateLoop(list, action_refs) ==
    IF list = <<>> THEN [error |-> "none", actions |-> action_refs]
    ELSE LET r == UpdateStep(action_refs, list[1])
         IN  IF r.error # "none" THEN r ELSE UpdateLoop(Tail(list), r.actions)

\* update_refs; dummy_steps is what DummySteps returns
update_refs(dummy_steps, action_refs) ==
    IF dummy_steps.none
    THEN [error |-> "TypeError", actions |-> action_refs]
    ELSE UpdateLoop(dummy_steps.list, action_refs)

----------------------------------------------------------------------------
(* Pattern generator *)

\* mutant: an entry expiring today is still listed
InPattern_Inclusive(details) == today <= details.expires_at \/ Keep(details)

\* the condition of the generator expression, line 213
InPattern(details) == today < details.expires_at \/ Keep(details)

create_pattern(actions) ==
    LET valid == SelectSeq(Items(actions), LAMBDA it : InPattern(it.details))
    IN  [i \in 1..Len(valid) |-> NameAtRef(valid[i].name, valid[i].ref)]

----------------------------------------------------------------------------
(* Expiry pruner *)

\* mutant: an entry expiring today is not yet expired
Expired_Strict(details) == details.expires_at < today /\ ~Keep(details)

\* mutant: keep does not protect an entry
Expired_IgnoresKeep(details) == details.expires_at <= today

\* the condition of the generator expression, line 263
Expired(details) == details.expires_at <= today /\ ~Keep(details)

\* lines 259-264
RefsToRemove(actions) == SelectSeq(Items(actions), LAMBDA it : Expired(it.details))

\* lines 268-272
RemoveRef(actions, name, ref) ==
    LET refs == DelItem(Get(actions, name), ref)
    IN  IF refs = <<>> THEN DelItem(actions, name) ELSE SetItem(actions, name, refs)

RECURSIVE RemoveAll(_, _)
RemoveAll(actions, list) ==
    IF list = <<>> THEN actions
    ELSE RemoveAll(RemoveRef(actions, list[1].name, list[1].ref), Tail(list))

remove_expired_refs(actions) == RemoveAll(actions, RefsToRemove(actions))

----------------------------------------------------------------------------
(* The inputs of the model *)

Pairs == Names \X Refs

\* RefDetails the store starts with: keep absent, or set to true by hand
\* (keep: false is what the updater writes)
InitDetails ==
    {[expires_at |-> e] : e \in InitExpiries}
        \cup {[expires_at |-> e, keep |-> TRUE] : e \in InitExpiries}

\* the RefGroups the store starts with: one reference, or two that expire on
\* different days
InitGroups ==
    {<<[key |-> <<"abc">>, val |-> d]>> : d \in InitDetails}
        \cup {<<[key |-> <<"abc">>, val |-> p[1]], [key |-> <<"xyz">>, val |-> p[2]]>> :
                 p \in {q \in InitDetails \X InitDetails : q[1].expires_at # q[2].expires_at}}

InitStores == {<<>>} \cup {<<[key |-> <<"o/r">>, val |-> g]>> : g \in InitGroups}

\* uses values a hand edit may write: name@ref, or a name without the separator
UsesValues ==
    {NameAtRef(<<"o/r">>, r) : r \in Refs}
        \cup {NameAtRef(<<"a/b">>, <<"abc">>), <<"o/r">>}

StepLists == UNION {[1..n -> UsesValues] : n \in 1..MaxSteps}

----------------------------------------------------------------------------
(* History of the grace window *)

\* the (name, ref) pairs the steps of a list name, in order
Observed(list) ==
    LET good == SelectSeq(list, LAMBDA st : Len(Split(st.uses, "@")) = 2)
    IN  [i \in 1..Len(good) |-> <<Split(good[i].uses, "@")[1], Split(good[i].uses, "@")[2]>>]

InStore(actions, name, ref) == Has(actions, name) /\ Has(Get(actions, name), ref)

\* a sibling of (name, ref), new to the store, is recorded by this call while
\* (name, ref) is in the RefGroup
Supersedes(obs, actions, name, ref) ==
    \E j \in 1..Len(obs) :
        /\ obs[j][1] = name
        /\ obs[j][2] # ref
        /\ ~InStore(actions, name, obs[j][2])
        /\ \A k \in 1..(j - 1) : obs[k] # obs[j]
        /\ \/ InStore(actions, name, ref)
           \/ \E i \in 1..(j - 1) : obs[i] = <<name, ref>>

----------------------------------------------------------------------------
(* The driver's operations *)

Init ==
    /\ today = 0
    /\ actions_file \in {Missing} \cup {File(s) : s \in InitStores}
    /\ dummy_file = Missing
    /\ op = "none"
    /\ error = "none"
    /\ superseded = [p \in Pairs |-> NoDay]
    /\ edits = 0

\* the history, once the store is written back
Forget(actions) ==
    [p \in Pairs |-> IF InStore(actions, p[1], p[2]) THEN superseded[p] ELSE NoDay]

update_workflow ==
    LET actions == load_yaml(actions_file)
    IN  /\ op' = "update_workflow"
        /\ error' = actions.error
        /\ dummy_file' = IF actions.error = "none"
                         THEN File(generate_workflow(actions.data))
                         ELSE dummy_file
        /\ UNCHANGED <<today, actions_file, superseded, edits>>

update_actions ==
    LET dummy == load_yaml(dummy_file)
        steps == DummySteps(dummy.data)
        actions == load_yaml(actions_file)
        r == update_refs(steps, actions.data)
        err == IF dummy.error # "none" THEN dummy.error
               ELSE IF actions.error # "none" THEN actions.error
               ELSE r.error
    IN  /\ op' = "update_actions"
        /\ error' = err
        /\ actions_file' = IF err = "none" THEN File(r.actions) ELSE actions_file
        /\ superseded' =
               IF err = "none"
               THEN [p \in Pairs |->
                        IF Supersedes(Observed(steps.list), actions.data, p[1], p[2])
                        THEN today ELSE superseded[p]]
               ELSE superseded
        /\ UNCHANGED <<today, dummy_file, edits>>

clean_actions ==
    LET actions == load_yaml(actions_file)
        cleaned == remove_expired_refs(actions.data)
    IN  /\ op' = "clean_actions"
        /\ error' = actions.error
        /\ actions_file' = IF actions.error = "none" THEN File(cleaned) ELSE actions_file
        /\ superseded' = IF actions.error = "none" THEN Forget(cleaned) ELSE superseded
        /\ UNCHANGED <<today, dummy_file, edits>>

----------------------------------------------------------------------------
(* The environment *)

\* the clock moves on to a later day
AdvanceDay ==
    /\ \E d \in Days : d > today /\ today' = d
    /\ op' = "none"
    /\ error' = "none"
    /\ UNCHANGED <<actions_file, dummy_file, superseded, edits>>

\* the dummy workflow is edited (a version bump, a hand edit)
EditDummy ==
    /\ dummy_file.exists
    /\ edits < MaxEdits
    /\ edits' = edits + 1
    /\ \E list \in StepLists :
           dummy_file' = File(header \o [i \in 1..Len(list) |-> StepLine(list[i])])
    /\ op' = "none"
    /\ error' = "none"
    /\ UNCHANGED <<today, actions_file, superseded>>

Next ==
    \/ update_workflow
    \/ update_actions
    \/ clean_actions
    \/ AdvanceDay
    \/ EditDummy

Spec == Init /\ [][Next]_vars

----------------------------------------------------------------------------
(* What the properties below speak of *)

\* the persisted store
Store == actions_file.content

\* the steps the dummy workflow lists
StepList == DummySteps(dummy_file.content).list

HasSeparator(str) == \E i \in 1..Len(str) : str[i] = "@"

WellFormed(list) == \A i \in 1..Len(list) : HasSeparator(list[i].uses)

Details(actions, name, ref) == Get(Get(actions, name), ref)

GroupOf(actions, name) == IF Has(actions, name) THEN Get(actions, name) ELSE <<>>

\* the store after the first i steps of the list
After(i) == UpdateLoop(SubSeq(StepList, 1, i), Store).actions

\* the members of a set of numbers in ascending order
Ascending(S) ==
    [i \in 1..Cardinality(S) |-> CHOOSE j \in S : Cardinality({k \in S : k < j}) = i - 1]

\* the places of the list where a reference new to name's RefGroup first occurs
NewAt(obs, actions, name) ==
    {j \in 1..Len(obs) :
        /\ obs[j][1] = name
        /\ ~InStore(actions, name, obs[j][2])
        /\ \A k \in 1..(j - 1) : obs[k] # obs[j]}

\* name's RefGroup after one call: the references it held and all but the last
\* new one expire in 84 days, the last new one on 2100-01-01
GroupAfterCall(obs, actions, name) ==
    LET old == GroupOf(actions, name)
        at == Ascending(NewAt(obs, actions, name))
    IN  IF at = <<>> THEN old
        ELSE [i \in 1..Len(old) |->
                 [key |-> old[i].key, val |-> [old[i].val EXCEPT !.expires_at = today + 84]]]
             \o [i \in 1..Len(at) |->
                 [key |-> obs[at[i]][2],
                  val |-> [expires_at |-> IF i = Len(at) THEN FarFuture ELSE today + 84,
                           keep |-> FALSE]]]

----------------------------------------------------------------------------
(* The claims *)

\* C1: when update_refs processes an observed pair (name, r2) whose reference
\* is not yet in name's RefGroup, every reference already in that RefGroup
\* gets expires_at = today + 12 weeks whatever it was before, and r2 is
\* inserted with expires_at = 2100-01-01 and keep = false; on an empty store
\* the single step "o/r@xyz" yields exactly that one entry.
C1_GraceWindow ==
    (dummy_file.exists /\ actions_file.exists /\ WellFormed(StepList)) =>
        /\ \A i \in 1..Len(StepList) :
               LET pair == Observed(StepList)[i]
                   pre == After(i - 1)
                   post == After(i)
               IN  ~InStore(pre, pair[1], pair[2]) =>
                       /\ \A k \in 1..Len(GroupOf(pre, pair[1])) :
                              LET ref == GroupOf(pre, pair[1])[k].key
                              IN  /\ InStore(post, pair[1], ref)
                                  /\ Details(post, pair[1], ref).expires_at = today + 84
                       /\ InStore(post, pair[1], pair[2])
                       /\ Details(post, pair[1], pair[2])
                              = [expires_at |-> FarFuture, keep |-> FALSE]
        /\ (Store = <<>> /\ StepList = <<[uses |-> <<"o/r", "@", "xyz">>]>>) =>
               update_refs(DummySteps(dummy_file.content), Store).actions
                   = <<[key |-> <<"o/r">>,
                        val |-> <<[key |-> <<"xyz">>,
                                   val |-> [expires_at |-> FarFuture, keep |-> FALSE]]>>]>>

\* C1 witness: update_actions recorded o/r@xyz next to abc, which expired the
\* day after day 0 and now expires 84 days from today
C1_Witness ==
    /\ op = "update_actions"
    /\ error = "none"
    /\ today = 0
    /\ Store = <<[key |-> <<"o/r">>,
                  val |-> <<[key |-> <<"abc">>, val |-> [expires_at |-> 84]],
                            [key |-> <<"xyz">>,
                             val |-> [expires_at |-> FarFuture, keep |-> FALSE]]>>]>>

\* C2 as claimed: in one call of update_refs a reference the call itself
\* inserted keeps expires_at = 2100-01-01 (only references in the RefGroup
\* before the call are bumped).
C2_AsClaimed ==
    [][(update_actions /\ error' = "none") =>
          \A p \in Pairs :
              (~InStore(Store, p[1], p[2]) /\ InStore(Store', p[1], p[2])) =>
                  Details(Store', p[1], p[2]).expires_at = FarFuture]_vars

\* C2 amended: in one call of update_refs, whenever a step adds a new
\* reference for a name, every reference then in that name's RefGroup is
\* bumped to today + 12 weeks, those the same call inserted earlier included,
\* so only the last reference inserted for a name keeps 2100-01-01; a name
\* for which the call adds no reference keeps its RefGroup unchanged.
C2_BumpWithinCall ==
    [][(update_actions /\ error' = "none") =>
          LET obs == Observed(StepList)
          IN  /\ \A n \in Names :
                     /\ Has(Store', n) <=> (Has(Store, n) \/ NewAt(obs, Store, n) # {})
                     /\ GroupOf(Store', n) = GroupAfterCall(obs, Store, n)
              /\ SubSeq(Keys(Store'), 1, Len(Store)) = Keys(Store)]_vars

\* C2 witness: the one edit of the dummy workflow named o/r@abc and then
\* o/r@xyz, and one call recorded both; abc, whose keep: false only the
\* updater writes, expires in 84 days
C2_Witness ==
    /\ op = "update_actions"
    /\ error = "none"
    /\ edits = 1
    /\ Len(StepList) = 2
    /\ StepList[1].uses = <<"o/r", "@", "abc">>
    /\ StepList[2].uses = <<"o/r", "@", "xyz">>
    /\ GroupOf(Store, <<"o/r">>)
           = <<[key |-> <<"abc">>, val |-> [expires_at |-> today + 84, keep |-> FALSE]],
               [key |-> <<"xyz">>, val |-> [expires_at |-> FarFuture, keep |-> FALSE]]>>

\* the "name@reference" strings of the entries of a store, in iteration order
PairStrings(items) == [i \in 1..Len(items) |-> items[i].name \o <<"@">> \o items[i].ref]

KeepTrue(details) == "keep" \in DOMAIN details /\ details.keep = TRUE

\* every name of the store maps to a non-empty RefGroup
NoEmptyGroup(actions) == \A i \in 1..Len(actions) : actions[i].val # <<>>

\* the names of the entries of a store, each once, in iteration order
NamesOf(items) ==
    LET first == {i \in 1..Len(items) : \A k \in 1..(i - 1) : items[k].name # items[i].name}
    IN  [i \in 1..Cardinality(first) |-> items[Ascending(first)[i]].name]

\* C3: remove_expired_refs removes exactly the pairs with expires_at <= today
\* and keep not true, removes every name whose RefGroup became empty, and
\* leaves every other entry's expires_at, keep and relative order unchanged.
C3_PrunerExact ==
    [][(clean_actions /\ error' = "none") =>
          LET stay == SelectSeq(Items(Store),
                                LAMBDA it : it.details.expires_at > today \/ KeepTrue(it.details))
          IN  /\ Items(Store') = stay
              /\ NoEmptyGroup(Store')
              /\ Keys(Store') = NamesOf(stay)]_vars

\* C3 witness: on day 1 clean_actions removed o/r@abc, which expired that day,
\* and retained o/r@xyz
C3_Witness ==
    /\ op = "clean_actions"
    /\ error = "none"
    /\ today = 1
    /\ Has(Store, <<"o/r">>)
    /\ Keys(Get(Store, <<"o/r">>)) = << <<"xyz">> >>

\* C4: for every store and the same today, create_pattern(store) is exactly
\* the list of "name@reference" strings, in store iteration order, of the
\* pairs that remain after remove_expired_refs(store).
C4_PatternMatchesPruner ==
    actions_file.exists =>
        create_pattern(Store) = PairStrings(Items(remove_expired_refs(Store)))

\* C4 witness: the store holds an entry that expires today and is not kept,
\* which neither the pattern list nor the pruned store holds, next to one
\* that both hold
C4_Witness ==
    /\ actions_file.exists
    /\ \E i \in 1..Len(Items(Store)) :
           /\ Items(Store)[i].details.expires_at = today
           /\ ~KeepTrue(Items(Store)[i].details)
    /\ create_pattern(Store) # <<>>

\* C5: generate_workflow emits one step line per pair, in store iteration
\* order, for exactly the pairs with expires_at > today + 4 weeks and keep
\* not true.
C5_WorkflowHorizon ==
    (op = "update_workflow" /\ error = "none") =>
        LET listed == SelectSeq(Items(Store),
                                LAMBDA it : it.details.expires_at > today + 28
                                            /\ ~KeepTrue(it.details))
        IN  dummy_file.content
                = header \o [i \in 1..Len(listed) |->
                                <<"      - uses: ">> \o PairStrings(listed)[i]]

\* C5 witness: update_workflow ran on a store with an entry expiring exactly
\* 4 weeks from today, which it left out, and one it listed
C5_Witness ==
    /\ op = "update_workflow"
    /\ error = "none"
    /\ \E i \in 1..Len(Items(Store)) :
           /\ Items(Store)[i].details.expires_at = today + 28
           /\ ~KeepTrue(Items(Store)[i].details)
    /\ Len(dummy_file.content) = Len(header) + 1

Listed(lines, p) == \E i \in 1..Len(lines) : lines[i] = p[1] \o <<"@">> \o p[2]

InWorkflowText(lines, p) ==
    \E i \in 1..Len(lines) : lines[i] = <<"      - uses: ">> \o p[1] \o <<"@">> \o p[2]

\* C6 as claimed: update_actions on the document update_workflow writes from
\* the same store completes without error and leaves the store unchanged,
\* also when no entry qualifies and the document is the header alone.
C6_ReadSideTolerates ==
    [][(/\ update_actions
        /\ actions_file.exists
        /\ dummy_file = File(generate_workflow(Store))) =>
           (error' = "none" /\ actions_file' = actions_file)]_vars

\* C6, the part that holds: when the document lists at least one step,
\* update_actions completes and leaves the store unchanged.
C6_HoldsWithSteps ==
    [][(/\ update_actions
        /\ actions_file.exists
        /\ dummy_file = File(generate_workflow(Store))
        /\ Len(dummy_file.content) > Len(header)) =>
           (error' = "none" /\ actions_file' = actions_file)]_vars

Pinned(actions, p) == InStore(actions, p[1], p[2]) /\ KeepTrue(Details(actions, p[1], p[2]))

\* C7: a reference with keep = true stays in the store with keep = true over
\* every update_refs, remove_expired_refs and advance of today, is listed by
\* create_pattern and is never listed by generate_workflow.
C7_KeepPinned ==
    /\ [](\A p \in Pairs :
              Pinned(Store, p) =>
                  /\ Listed(create_pattern(Store), p)
                  /\ ~InWorkflowText(generate_workflow(Store), p))
    /\ [][\A p \in Pairs : Pinned(Store, p) => Pinned(Store', p)]_vars

\* C7 witness: clean_actions ran over a kept entry whose expires_at has passed
C7_Witness ==
    /\ op = "clean_actions"
    /\ error = "none"
    /\ \E p \in Pairs : Pinned(Store, p) /\ Details(Store, p[1], p[2]).expires_at <= today

\* C8: an observed pair already in name's RefGroup changes nothing, a
\* duplicate of a pair later in the same call changes nothing, and a second
\* call of update_refs with the same list leaves the store as the first left it.
C8_UpdaterNoOp ==
    (dummy_file.exists /\ actions_file.exists /\ WellFormed(StepList)) =>
        LET obs == Observed(StepList)
            once == update_refs(DummySteps(dummy_file.content), Store).actions
        IN  /\ \A i \in 1..Len(obs) :
                   InStore(After(i - 1), obs[i][1], obs[i][2]) => After(i) = After(i - 1)
            /\ \A i \in 1..Len(obs) :
                   (\E k \in 1..(i - 1) : obs[k] = obs[i]) => After(i) = After(i - 1)
            /\ update_refs(DummySteps(dummy_file.content), once).actions = once
            /\ (op = "update_actions" /\ error = "none") => once = Store

\* C8 witness: update_actions ran on a list that names the same pair twice
C8_Witness ==
    /\ op = "update_actions"
    /\ error = "none"
    /\ Len(StepList) = 2
    /\ StepList[1] = StepList[2]
    /\ InStore(Store, <<"a/b">>, <<"abc">>)

\* C9: if a step's uses value lacks the "@" separator, update_refs raises an
\* error that reaches the caller and update_actions ends without writing the
\* actions file; a failed load of an input file aborts before any write.
C9_ErrorsSurface ==
    [][/\ (update_actions /\ dummy_file.exists /\ actions_file.exists
             /\ ~WellFormed(StepList)) =>
              (error' = "ValueError" /\ actions_file' = actions_file)
       /\ (update_actions /\ (~dummy_file.exists \/ ~actions_file.exists)) =>
              (error' = "LoadError" /\ actions_file' = actions_file
                 /\ dummy_file' = dummy_file)
       /\ ((update_workflow \/ clean_actions) /\ ~actions_file.exists) =>
              (error' = "LoadError" /\ actions_file' = actions_file
                 /\ dummy_file' = dummy_file)]_vars

\* C9 witness: update_actions raised on the second step, after a first step
\* that named a pair new to the store, and the store on disk lacks that pair
C9_Witness ==
    /\ op = "update_actions"
    /\ error = "ValueError"
    /\ Len(StepList) = 2
    /\ StepList[1].uses = <<"a/b", "@", "abc">>
    /\ ~HasSeparator(StepList[2].uses)
    /\ actions_file.exists
    /\ ~InStore(Store, <<"a/b">>, <<"abc">>)

\* C10: a reference r without keep that is in name's RefGroup on day D when
\* update_refs records a new reference for that name, none being recorded
\* later, survives every remove_expired_refs run before day D + 84, is
\* absent from generate_workflow's output from day D + 56 on, is removed by
\* the first remove_expired_refs run on or after day D + 84, and is back in
\* the store only if it is observed again.
C10_GraceLifecycle ==
    /\ [](\A p \in Pairs :
              (/\ superseded[p] # NoDay
               /\ InStore(Store, p[1], p[2])
               /\ ~KeepTrue(Details(Store, p[1], p[2]))
               /\ today >= superseded[p] + 56) =>
                  ~InWorkflowText(generate_workflow(Store), p))
    /\ [][\A p \in Pairs :
              LET D == superseded[p]
                  plain == InStore(Store, p[1], p[2])
                               /\ ~KeepTrue(Details(Store, p[1], p[2]))
              IN  /\ (D # NoDay /\ plain /\ clean_actions /\ today < D + 84) =>
                         InStore(Store', p[1], p[2])
                  /\ (D # NoDay /\ plain /\ clean_actions /\ today >= D + 84) =>
                         ~InStore(Store', p[1], p[2])
                  /\ (~InStore(Store, p[1], p[2]) /\ InStore(Store', p[1], p[2])) =>
                         /\ update_actions
                         /\ \E i \in 1..Len(StepList) :
                                StepList[i].uses = p[1] \o <<"@">> \o p[2]]_vars

\* C10 witness: the one edit of the dummy workflow named o/r@abc and then
\* o/r@xyz, so abc was in the RefGroup when xyz was recorded; on day 84
\* clean_actions ran and the RefGroup holds xyz alone
C10_Witness ==
    /\ op = "clean_actions"
    /\ error = "none"
    /\ today = 84
    /\ edits = 1
    /\ Len(StepList) = 2
    /\ StepList[1].uses = <<"o/r", "@", "abc">>
    /\ StepList[2].uses = <<"o/r", "@", "xyz">>
    /\ Keys(GroupOf(Store, <<"o/r">>)) = << <<"xyz">> >>

====
